---- MODULE Spec2Model ----
(***************************************************************************)
(* The google_project resource of terraform-provider-google               *)
(* (google/resource_google_project.go): Create, Read, Update, Delete and   *)
(* Import of one project record, with every remote call a step of its own. *)
(*                                                                         *)
(* Strings the code parses (folder ids, billing account names) are         *)
(* sequences of tokens, so that prefixing and prefix stripping are         *)
(* computed; all other strings are atoms and "" is the empty string.       *)
(***************************************************************************)
EXTENDS Integers, Sequences, FiniteSets

VARIABLES
    d,        \* the *schema.ResourceData record handed to the handler
    op,       \* the handler the host is running ("none" between handlers)
    pc,       \* position inside the handler
    err,      \* the handler's returned error once pc = "done" ("nil": success)
    inPoll,   \* resourceGoogleProjectRead is running for the billing poll
    retries,  \* updateProjectBillingAccount: loop counter
    name,     \* updateProjectBillingAccount: local `name`
    p,        \* resourceGoogleProjectUpdate: local `p`
    project_name, \* resourceGoogleProjectUpdate: local `project_name`
    diff,     \* the record's diff: the new value of every field that changed
    calls,    \* remote calls issued by the running handler, in order
    lastGet,  \* last response of Projects.Get
    lastBa,   \* response of Projects.GetBillingInfo in the last Read, if any
    readErr,  \* what the last call of resourceGoogleProjectRead returned
    fw,       \* remote: firewall rules still attached to the default network
    items,    \* forceDeleteComputeNetwork: rules of resp.Items not yet deleted
    respToken, \* forceDeleteComputeNetwork: resp.NextPageToken
    token     \* forceDeleteComputeNetwork: local `token`

vars == <<d, op, pc, err, inPoll, retries, name, p, project_name, diff, calls,
          lastGet, lastBa, readErr, fw, items, respToken, token>>

----------------------------------------------------------------------------
(* Bounds and value domains *)

\* firewall rules the default network of a new project may carry
MaxRules == 2
\* rules per page of the firewall listing
PageSize == 1

ProjectIds == {"p1"}
Names == {"n1", "n2"}
OrgIds == {<<"o1">>}
\* billing accounts a configuration names; the billing service knows more
Accounts == {"A"}
NoLabels == {}
LabelSets == {NoLabels, {<<"k", "v">>}}
ProjectNumbers == {12}
LifecycleStates == {"ACTIVE", "DELETE_REQUESTED", "DELETE_IN_PROGRESS"}

BillingPrefix == "billingAccounts/"
FolderPrefix == "folders/"
Empty == <<>>

\* folder_id as written in the configuration, with or without "folders/"
FolderInputs == {<<"f1">>, <<FolderPrefix, "f1">>}
\* billing_account as written in the configuration
BillingInputs == {Empty} \cup {<<a>> : a \in Accounts}

NoParent == [type |-> "", id |-> Empty]

Project(nm, lb, par, st) ==
    [projectId |-> "p1", name |-> nm, labels |-> lb, parent |-> par,
     projectNumber |-> 12, lifecycleState |-> st]

\* cloudresourcemanager.Project as returned by Projects.Get: ACTIVE projects
\* in which every pair of values of name, labels and parent occurs, and
\* projects on their way to deletion
RemoteProjects ==
    {Project("n1", NoLabels, NoParent, "ACTIVE"),
     Project("n2", {<<"k", "v">>}, NoParent, "ACTIVE"),
     Project("n1", {<<"k", "v">>}, [type |-> "organization", id |-> <<"o1">>], "ACTIVE"),
     Project("n2", NoLabels, [type |-> "organization", id |-> <<"o1">>], "ACTIVE"),
     Project("n1", NoLabels, [type |-> "folder", id |-> <<"f1">>], "ACTIVE"),
     Project("n2", {<<"k", "v">>}, [type |-> "folder", id |-> <<"f1">>], "ACTIVE")}
    \cup {Project("n2", {<<"k", "v">>}, [type |-> "organization", id |-> <<"o1">>], st) :
             st \in LifecycleStates \ {"ACTIVE"}}

NoProject ==
    [projectId |-> "", name |-> "", labels |-> NoLabels, parent |-> NoParent,
     projectNumber |-> 0, lifecycleState |-> ""]

\* Projects.Get(pid).Do(): an error, a 404, or a project
GetResponses ==
    {[code |-> c, project |-> NoProject] : c \in {"err", "404"}}
    \cup {[code |-> "ok", project |-> q] : q \in RemoteProjects}

NoGet == [code |-> "none", project |-> NoProject]

\* ProjectBillingInfo.BillingAccountName values the billing service may return
BillingNames ==
    {Empty, <<BillingPrefix, "A">>, <<BillingPrefix, "B">>, <<"A">>,
     <<BillingPrefix, BillingPrefix, "A">>}

\* Projects.GetBillingInfo(...).Do(): an error, or a billing info
BaResponses ==
    {[code |-> "err", billingAccountName |-> Empty]}
    \cup {[code |-> "ok", billingAccountName |-> b] : b \in BillingNames}

NoBa == [code |-> "none", billingAccountName |-> Empty]

\* an absent page token (the empty string); a page token is <<k>>, k the last
\* rule of the page it was returned with
NoToken == Empty

----------------------------------------------------------------------------
(* Pure helpers *)

\* strings.HasPrefix
HasPrefix(s, pre) == Len(s) > 0 /\ Head(s) = pre

\* strings.TrimPrefix: removes one leading occurrence of pre
TrimPrefix(s, pre) == IF HasPrefix(s, pre) THEN Tail(s) ELSE s

\* strconv.FormatInt(n, 10) for n >= 0: the decimal digits, most significant first
RECURSIVE FormatInt(_)
FormatInt(n) == IF n < 10 THEN <<n>> ELSE Append(FormatInt(n \div 10), n % 10)

prefixedProject(pid) == <<"projects/", pid>>

parseFolderId(v) == IF HasPrefix(v, FolderPrefix) THEN Tail(v) ELSE v

\* d.GetOk(key) for a string field: set and not the zero value
GetOk(v) == v # Empty

\* d.GetOk("labels"): set and not an empty map
GetOkLabels(v) == v # NoLabels

\* getParentResourceId(d, p): p.Parent after the call
getParentResourceId(dd, parent) ==
    LET p1 == IF GetOk(dd.org_id)
              THEN [type |-> "organization", id |-> dd.org_id]
              ELSE parent
    IN  IF GetOk(dd.folder_id)
        THEN [type |-> "folder", id |-> parseFolderId(dd.folder_id)]
        ELSE p1

\* expandLabels(d): the labels of the record as a map[string]string
expandLabels(dd) == dd.labels

\* an entry of calls: the remote call, what it was sent, whether it succeeded
Call(api, arg, ok) == [api |-> api, arg |-> arg, ok |-> ok]

\* positions of the calls of one API in calls
Idx(api) == {i \in 1..Len(calls) : calls[i].api = api}

----------------------------------------------------------------------------
(* The record, and control transfer between the handlers *)

BlankRecord ==
    [id |-> "", project_id |-> "", name |-> "", org_id |-> Empty,
     folder_id |-> Empty, number |-> Empty, billing_account |-> Empty,
     labels |-> NoLabels, auto_create_network |-> TRUE, skip_delete |-> FALSE]

\* org_id / folder_id of a configuration: ConflictsWith allows at most one
ParentInputs ==
    {[org_id |-> Empty, folder_id |-> Empty]}
    \cup {[org_id |-> o, folder_id |-> Empty] : o \in OrgIds}
    \cup {[org_id |-> Empty, folder_id |-> f] : f \in FolderInputs}

\* a diff in which no field changed
NoChange == [f \in {} |-> TRUE]

\* d.HasChange(key); "parent" stands for d.HasChange("org_id") ||
\* d.HasChange("folder_id")
HasChange(f) == f \in DOMAIN diff

Nx(dd, npc, e, r, ip) ==
    [d |-> dd, pc |-> npc, err |-> e, retries |-> r, inPoll |-> ip,
     readErr |-> readErr]

\* the running handler returns e to the host
Finish(dd, e) == Nx(dd, "done", e, retries, FALSE)

Goto(dd, l) == Nx(dd, l, "nil", retries, FALSE)

\* a call of resourceGoogleProjectRead(d, meta)
CallRead(dd, r, ip) == [Nx(dd, "r_get", "nil", r, ip) EXCEPT !.readErr = "none"]

Set(n) ==
    /\ d' = n.d
    /\ pc' = n.pc
    /\ err' = n.err
    /\ retries' = n.retries
    /\ inPoll' = n.inPoll
    /\ readErr' = n.readErr

Init ==
    /\ d = BlankRecord
    /\ op = "none"
    /\ pc = "idle"
    /\ err = "nil"
    /\ inPoll = FALSE
    /\ retries = 0
    /\ name = Empty
    /\ p = NoProject
    /\ project_name = ""
    /\ diff = NoChange
    /\ calls = <<>>
    /\ lastGet = NoGet
    /\ lastBa = NoBa
    /\ readErr = "none"
    /\ fw = {}
    /\ items = <<>>
    /\ respToken = NoToken
    /\ token = NoToken

----------------------------------------------------------------------------
(* resourceGoogleProjectCreate, lines 95-157 *)

\* CreateAfterRead with the network deleted before the compute service is enabled
CreateAfterRead_m(dd, e) ==
    IF e # "nil" THEN Finish(dd, e)
    ELSE IF ~dd.auto_create_network THEN Goto(dd, "f_list")
    ELSE Finish(dd, "nil")

\* lines 138-156: after resourceGoogleProjectRead returned e
CreateAfterRead(dd, e) ==
    IF e # "nil" THEN Finish(dd, e)
    ELSE IF ~dd.auto_create_network THEN Goto(dd, "c_enable")
    ELSE Finish(dd, "nil")

\* lines 132-137: after updateProjectBillingAccount returned e
CreateAfterBilling(dd, e) ==
    IF e # "nil" THEN Finish(dd, e) ELSE CallRead(dd, retries, FALSE)

\* lines 100-112: the Project sent to Projects.Create
NewProject(dd) ==
    [projectId |-> dd.project_id,
     name |-> dd.name,
     parent |-> getParentResourceId(dd, NoParent),
     labels |-> IF GetOkLabels(dd.labels) THEN expandLabels(dd) ELSE NoLabels]

\* The host calls Create for a configuration that has no record yet.
InvokeCreate ==
    /\ pc = "idle"
    /\ d.id = ""
    /\ \E pid \in ProjectIds, nm \in Names, par \in ParentInputs,
          ba \in BillingInputs, lb \in LabelSets, acn \in BOOLEAN,
          skip \in BOOLEAN :
          /\ d' = [BlankRecord EXCEPT !.project_id = pid, !.name = nm,
                      !.org_id = par.org_id, !.folder_id = par.folder_id,
                      !.billing_account = ba, !.labels = lb,
                      !.auto_create_network = acn, !.skip_delete = skip]
    /\ op' = "create"
    /\ pc' = "c_create"
    /\ UNCHANGED <<err, inPoll, retries, name, p, project_name, diff, calls,
                   lastGet, lastBa, readErr, fw, items, respToken, token>>

\* AfterCreateSubmit with the identifier set before the error is looked at
AfterCreateSubmit_m(dd, ok) ==
    IF ok THEN Goto([dd EXCEPT !.id = dd.project_id], "c_wait")
    ELSE Finish([dd EXCEPT !.id = dd.project_id], "create")

\* lines 114-119: after Projects.Create(project).Do()
AfterCreateSubmit(dd, ok) ==
    IF ok THEN Goto([dd EXCEPT !.id = dd.project_id], "c_wait")
    ELSE Finish(dd, "create")

CreateProject ==
    /\ pc = "c_create"
    /\ \E ok \in BOOLEAN :
          /\ calls' = Append(calls, Call("projects.create", NewProject(d), ok))
          /\ Set(AfterCreateSubmit(d, ok))
    /\ UNCHANGED <<op, name, p, project_name, diff, lastGet, lastBa, fw, items, respToken, token>>

\* AfterCreateWait with the identifier kept when the wait fails
AfterCreateWait_m(dd, ok) ==
    IF ~ok THEN Finish(dd, "wait")
    ELSE IF GetOk(dd.billing_account) THEN Goto(dd, "b_update")
    ELSE CallRead(dd, retries, FALSE)

\* lines 122-135: after resourceManagerOperationWait
AfterCreateWait(dd, ok) ==
    IF ~ok THEN Finish([dd EXCEPT !.id = ""], "wait")
    ELSE IF GetOk(dd.billing_account) THEN Goto(dd, "b_update")
    ELSE CallRead(dd, retries, FALSE)

CreateWait ==
    /\ pc = "c_wait"
    /\ \E ok \in BOOLEAN :
          /\ calls' = Append(calls, Call("operation.wait", "project to create", ok))
          /\ Set(AfterCreateWait(d, ok))
    /\ UNCHANGED <<op, name, p, project_name, diff, lastGet, lastBa, fw, items, respToken, token>>

\* lines 148-152: after enableService("compute.googleapis.com", ...)
AfterEnable(dd, ok) ==
    IF ok THEN Goto(dd, "f_list") ELSE Finish(dd, "enable")

\* Enabling the compute service is what gives the project its default network,
\* with up to MaxRules firewall rules attached.

EnableService ==
    /\ pc = "c_enable"
    /\ \E ok \in BOOLEAN :
          /\ calls' = Append(calls, Call("services.enable", calls[1].arg.projectId, ok))
          /\ Set(AfterEnable(d, ok))
          /\ IF ok THEN \E n \in 0..MaxRules : fw' = 1..n ELSE fw' = fw
    /\ token' = NoToken
    /\ UNCHANGED <<op, name, p, project_name, diff, lastGet, lastBa, items,
                   respToken>>

----------------------------------------------------------------------------
(* forceDeleteComputeNetwork, lines 330-359 *)

RECURSIVE Sorted(_)
Sorted(S) ==
    IF S = {} THEN <<>>
    ELSE LET m == CHOOSE x \in S : \A y \in S : x <= y
         IN  <<m>> \o Sorted(S \ {m})

\* The compute service's answer to Firewalls.List with page token t: the next
\* PageSize rules after the token, and a token when more rules follow.
Page(t) ==
    LET s == Sorted({x \in fw : t = NoToken \/ x > t[1]})
    IN  IF Len(s) > PageSize
        THEN [items |-> SubSeq(s, 1, PageSize), nextPageToken |-> <<s[PageSize]>>]
        ELSE [items |-> s, nextPageToken |-> NoToken]

\* line 336: the page token the List request carries (the call chain sets none)
ListRequestToken(tok) == NoToken

\* AfterPage with `paginate` never cleared
AfterPage_loop(tok) == "f_list"

\* AfterPage with the network deleted after the first page
AfterPage_m(tok) == "f_delnet"

\* lines 354-358: after the last rule of a page: the next page, or the network
AfterPage(tok) == IF tok # NoToken THEN "f_list" ELSE "f_delnet"

\* The call log is capped: a network of at most MaxRules rules, each listing
\* but the last followed by a deletion, takes no more than MaxRules + 1
\* listings.
ListFirewalls ==
    /\ pc = "f_list"
    /\ Cardinality(Idx("firewalls.list")) <= MaxRules
    /\ \E ok \in BOOLEAN :
          /\ calls' = Append(calls, Call("firewalls.list", ListRequestToken(token), ok))
          /\ IF ~ok
             THEN /\ Set(Finish(d, "fw_list"))
                  /\ UNCHANGED <<items, respToken, token>>
             ELSE LET resp == Page(ListRequestToken(token))
                  IN  /\ items' = resp.items
                      /\ respToken' = resp.nextPageToken
                      /\ IF resp.items = <<>>
                         THEN /\ token' = resp.nextPageToken
                              /\ Set(Goto(d, AfterPage(resp.nextPageToken)))
                         ELSE /\ token' = token
                              /\ Set(Goto(d, "f_del"))
    /\ UNCHANGED <<op, name, p, project_name, diff, lastGet, lastBa, fw>>

DeleteFirewall ==
    /\ pc = "f_del"
    /\ \E ok \in BOOLEAN :
          /\ calls' = Append(calls, Call("firewalls.delete", Head(items), ok))
          /\ Set(IF ok THEN Goto(d, "f_wait") ELSE Finish(d, "fw_delete"))
    /\ UNCHANGED <<op, name, p, project_name, diff, lastGet, lastBa, fw, items,
                   respToken, token>>

WaitFirewall ==
    /\ pc = "f_wait"
    /\ \E ok \in BOOLEAN :
          /\ calls' = Append(calls, Call("compute.wait", Head(items), ok))
          /\ IF ~ok
             THEN /\ Set(Finish(d, "fw_wait"))
                  /\ UNCHANGED <<fw, items, token>>
             ELSE /\ fw' = fw \ {Head(items)}
                  /\ items' = Tail(items)
                  /\ IF Tail(items) = <<>>
                     THEN /\ token' = respToken
                          /\ Set(Goto(d, AfterPage(respToken)))
                     ELSE /\ token' = token
                          /\ Set(Goto(d, "f_del"))
    /\ UNCHANGED <<op, name, p, project_name, diff, lastGet, lastBa, respToken>>

\* line 358: deleteComputeNetwork(projectId, networkName, config)
DeleteNetwork ==
    /\ pc = "f_delnet"
    /\ \E ok \in BOOLEAN :
          /\ calls' = Append(calls, Call("networks.delete", "default", ok))
          /\ Set(IF ok THEN Finish(d, "nil") ELSE Finish(d, "net_delete"))
    /\ UNCHANGED <<op, name, p, project_name, diff, lastGet, lastBa, fw, items,
                   respToken, token>>

----------------------------------------------------------------------------
(* resourceGoogleProjectUpdate: the order of its steps, lines 261-302 *)

StepOrder == <<"name", "parent", "billing_account", "labels">>

StepPc ==
    [name |-> "u_name", parent |-> "u_parent", billing_account |-> "b_update",
     labels |-> "u_labels"]

\* the first step after position i whose field d.HasChange reports changed;
\* d.Partial(false) and return nil when there is none
UpdateFrom(dd, i) ==
    LET later == {j \in (i + 1)..Len(StepOrder) : HasChange(StepOrder[j])}
    IN  IF later = {} THEN Finish(dd, "nil")
        ELSE LET j == CHOOSE x \in later : \A y \in later : x <= y
             IN  Goto(dd, StepPc[StepOrder[j]])

UpdateAfter(dd, f) ==
    UpdateFrom(dd, CHOOSE i \in 1..Len(StepOrder) : StepOrder[i] = f)

\* lines 287-290: after updateProjectBillingAccount returned e
UpdateAfterBilling(dd, e) ==
    IF e # "nil" THEN Finish(dd, e) ELSE UpdateAfter(dd, "billing_account")

----------------------------------------------------------------------------
(* updateProjectBillingAccount, lines 361-392 *)

MaxRetries == 3

\* updateProjectBillingAccount returns e to resourceGoogleProjectCreate or
\* resourceGoogleProjectUpdate
BillingReturn(dd, e) ==
    IF op = "create" THEN CreateAfterBilling(dd, e) ELSE UpdateAfterBilling(dd, e)

\* lines 364-368: the ProjectBillingInfo sent
BillingPayload(nm) ==
    [billingAccountName |-> IF nm # Empty THEN <<BillingPrefix>> \o nm ELSE Empty,
     forceSendFields |-> {}]

\* AfterBillingSubmit with the billing field kept when the submission fails
AfterBillingSubmit_m(dd, ok) ==
    IF ~ok THEN BillingReturn(dd, "billing_update")
    ELSE CallRead(dd, 0, TRUE)

\* lines 369-377: after Projects.UpdateBillingInfo(...).Do()
AfterBillingSubmit(dd, ok) ==
    IF ~ok THEN BillingReturn([dd EXCEPT !.billing_account = Empty], "billing_update")
    ELSE CallRead(dd, 0, TRUE)

UpdateBillingInfo ==
    /\ pc = "b_update"
    /\ name' = d.billing_account
    /\ \E ok \in BOOLEAN :
          /\ calls' = Append(calls, Call("billing.update",
                         [project |-> prefixedProject(d.id),
                          info |-> BillingPayload(d.billing_account)], ok))
          /\ Set(AfterBillingSubmit(d, ok))
    /\ UNCHANGED <<op, p, project_name, diff, lastGet, lastBa, fw, items,
                   respToken, token>>

\* line 377: the loop condition after retries++
PollAgain(r) == r < MaxRetries

\* lines 379-390: after the poll's resourceGoogleProjectRead returned e.
\* The timeout message reads d.Get("billding_account").(string): the key is not
\* in the schema, Get yields nil, and the type assertion panics before any
\* error value is built.
PollAfterRead(dd, e) ==
    IF e # "nil" THEN BillingReturn(dd, e)
    ELSE IF dd.billing_account = name THEN BillingReturn(dd, "nil")
    ELSE IF PollAgain(retries + 1) THEN CallRead(dd, retries + 1, TRUE)
    ELSE [Finish(dd, "panic") EXCEPT !.retries = retries + 1]

----------------------------------------------------------------------------
(* resourceGoogleProjectRead, lines 159-211 *)

\* resourceGoogleProjectRead returns e to its caller
ReadReturn(dd, e) ==
    LET n == IF inPoll THEN PollAfterRead(dd, e)
             ELSE IF op = "create" THEN CreateAfterRead(dd, e)
             ELSE Finish(dd, e)
    IN  [n EXCEPT !.readErr = e]

\* handleNotFoundError(err, d, ...): a 404 removes the record from state and
\* is no error; any other error is returned
handleNotFoundError(dd, code) ==
    IF code = "404" THEN ReadReturn([dd EXCEPT !.id = ""], "nil")
    ELSE ReadReturn(dd, "read_get")

\* NotActive with the record left in state
NotActive_m(dd) == ReadReturn(dd, "nil")

\* lines 170-174: a project that is not ACTIVE
NotActive(dd) == ReadReturn([dd EXCEPT !.id = ""], "nil")

\* lines 176-190: the fields copied from the fetched project
SetProjectFields(dd, q) ==
    [dd EXCEPT !.project_id = dd.id,
               !.number = FormatInt(q.projectNumber),
               !.name = q.name,
               !.labels = q.labels,
               !.org_id = IF q.parent.type = "organization" THEN q.parent.id
                          ELSE IF q.parent.type = "folder" THEN Empty ELSE @,
               !.folder_id = IF q.parent.type = "folder" THEN q.parent.id
                             ELSE IF q.parent.type = "organization" THEN Empty
                             ELSE @]

\* lines 164-190
AfterGet(dd, r) ==
    IF r.code # "ok" THEN handleNotFoundError(dd, r.code)
    ELSE IF r.project.lifecycleState # "ACTIVE" THEN NotActive(dd)
    ELSE [Goto(SetProjectFields(dd, r.project), "r_billing") EXCEPT
             !.inPoll = inPoll, !.readErr = "none"]

ReadGet ==
    /\ pc = "r_get"
    /\ \E r \in GetResponses :
          /\ calls' = Append(calls, Call("projects.get", d.id, r.code = "ok"))
          /\ lastGet' = r
          /\ Set(AfterGet(d, r))
    /\ lastBa' = NoBa
    /\ UNCHANGED <<op, name, p, project_name, diff, fw, items, respToken, token>>

\* AfterBillingInfo without the check that the prefix was there
AfterBillingInfo_m(dd, b) ==
    IF b.code # "ok" THEN ReadReturn(dd, "read_billing")
    ELSE IF b.billingAccountName # Empty
    THEN ReadReturn([dd EXCEPT !.billing_account =
                        TrimPrefix(b.billingAccountName, BillingPrefix)], "nil")
    ELSE ReadReturn(dd, "nil")

\* lines 194-210
AfterBillingInfo(dd, b) ==
    IF b.code # "ok" THEN ReadReturn(dd, "read_billing")
    ELSE IF b.billingAccountName # Empty
    THEN LET _ba == TrimPrefix(b.billingAccountName, BillingPrefix)
         IN  IF b.billingAccountName = _ba THEN ReadReturn(dd, "read_parse")
             ELSE ReadReturn([dd EXCEPT !.billing_account = _ba], "nil")
    ELSE ReadReturn(dd, "nil")

ReadBilling ==
    /\ pc = "r_billing"
    /\ \E b \in BaResponses :
          /\ calls' = Append(calls, Call("billing.get", prefixedProject(d.id),
                                        b.code = "ok"))
          /\ lastBa' = b
          /\ Set(AfterBillingInfo(d, b))
    /\ UNCHANGED <<op, name, p, project_name, diff, lastGet, fw, items,
                   respToken, token>>

\* The host refreshes a record it holds.
InvokeRead ==
    /\ pc = "idle"
    /\ d.id # ""
    /\ op' = "read"
    /\ Set(CallRead(d, retries, FALSE))
    /\ UNCHANGED <<name, p, project_name, diff, calls, lastGet, lastBa, fw, items,
                   respToken, token>>

----------------------------------------------------------------------------
(* resourceGoogleProjectUpdate, lines 243-306 *)

\* The host calls Update with new values for some of the mutable fields.
\* org_id and folder_id are Optional and Computed (lines 53-65): the one the
\* configuration leaves out keeps the value the record holds, and folder_id is
\* compared as parseFolderId stores it.
InvokeUpdate ==
    /\ pc = "idle"
    /\ d.id # ""
    /\ \E nm \in Names, par \in ParentInputs, ba \in BillingInputs,
          lb \in LabelSets :
          LET new == [name |-> nm, parent |-> par, billing_account |-> ba,
                      labels |-> lb]
              orgChanged == GetOk(par.org_id) /\ par.org_id # d.org_id
              folderChanged ==
                  /\ GetOk(par.folder_id)
                  /\ parseFolderId(par.folder_id) # parseFolderId(d.folder_id)
              changed ==
                  {f \in DOMAIN new :
                      IF f = "parent" THEN orgChanged \/ folderChanged
                      ELSE new[f] # d[f]}
          IN  /\ changed # {}
              /\ diff' = [f \in changed |-> new[f]]
              /\ d' = [d EXCEPT !.name = nm, !.billing_account = ba, !.labels = lb,
                                !.org_id = IF orgChanged THEN par.org_id ELSE @,
                                !.folder_id = IF folderChanged
                                              THEN par.folder_id ELSE @]
              /\ project_name' = nm
    /\ op' = "update"
    /\ pc' = "u_get"
    /\ UNCHANGED <<err, inPoll, retries, name, p, calls, lastGet, lastBa, readErr,
                   fw, items, respToken, token>>

\* lines 251-259
UpdateGet ==
    /\ pc = "u_get"
    /\ \E r \in GetResponses :
          /\ calls' = Append(calls, Call("projects.get", d.id, r.code = "ok"))
          /\ lastGet' = r
          /\ IF r.code # "ok"
             THEN /\ Set(Finish(d, "update_get"))
                  /\ p' = p
             ELSE /\ Set(UpdateFrom(d, 0))
                  /\ p' = r.project
    /\ UNCHANGED <<op, name, project_name, diff, lastBa, fw, items, respToken, token>>

\* NamePayload with the object refreshed from the record before it is sent
NamePayload_m(q, dd) ==
    [q EXCEPT !.name = project_name, !.labels = expandLabels(dd)]

\* line 263
NamePayload(q, dd) == [q EXCEPT !.name = project_name]

\* line 274
ParentPayload(q, dd) == [q EXCEPT !.parent = getParentResourceId(dd, q.parent)]

\* line 295
LabelsPayload(q, dd) == [q EXCEPT !.labels = expandLabels(dd)]

\* Projects.Update(p.ProjectId, p).Do() for the step of field f: the service
\* stores the object sent and returns it
ProjectUpdate(f, payload) ==
    /\ \E ok \in BOOLEAN :
          /\ calls' = Append(calls, Call("projects.update",
                                        [field |-> f, object |-> payload], ok))
          /\ IF ok
             THEN /\ Set(UpdateAfter(d, f))
                  /\ p' = payload
             ELSE /\ Set(Finish(d, "update_project"))
                  /\ p' = p
    /\ UNCHANGED <<op, name, project_name, diff, lastGet, lastBa, fw, items,
                   respToken, token>>

\* lines 262-270
UpdateName == pc = "u_name" /\ ProjectUpdate("name", NamePayload(p, d))

\* lines 273-283
UpdateParent == pc = "u_parent" /\ ProjectUpdate("parent", ParentPayload(p, d))

\* lines 294-302
UpdateLabels == pc = "u_labels" /\ ProjectUpdate("labels", LabelsPayload(p, d))

----------------------------------------------------------------------------
(* resourceGoogleProjectDelete, lines 308-320 *)

\* lines 311 and 318: with skip_delete the record is only cleared
InvokeDelete ==
    /\ pc = "idle"
    /\ d.id # ""
    /\ op' = "delete"
    /\ Set(IF d.skip_delete THEN Finish([d EXCEPT !.id = ""], "nil")
           ELSE Goto(d, "d_delete"))
    /\ UNCHANGED <<name, p, project_name, diff, calls, lastGet, lastBa, fw, items,
                   respToken, token>>

\* AfterDelete with the identifier cleared before the error is looked at
AfterDelete_m(dd, ok) ==
    Finish([dd EXCEPT !.id = ""], IF ok THEN "nil" ELSE "delete")

\* lines 313-319: after Projects.Delete(pid).Do()
AfterDelete(dd, ok) ==
    IF ok THEN Finish([dd EXCEPT !.id = ""], "nil") ELSE Finish(dd, "delete")

DeleteProject ==
    /\ pc = "d_delete"
    /\ \E ok \in BOOLEAN :
          /\ calls' = Append(calls, Call("projects.delete", d.id, ok))
          /\ Set(AfterDelete(d, ok))
    /\ UNCHANGED <<op, name, p, project_name, diff, lastGet, lastBa, fw, items,
                   respToken, token>>

----------------------------------------------------------------------------
(* resourceProjectImportState, lines 322-327 *)

\* ImportState with the flag left as the record holds it
ImportState_m ==
    /\ pc = "idle"
    /\ d.id # ""
    /\ op' = "import"
    /\ Set(Finish(d, "nil"))
    /\ UNCHANGED <<name, p, project_name, diff, calls, lastGet, lastBa, fw, items,
                   respToken, token>>

ImportState ==
    /\ pc = "idle"
    /\ d.id # ""
    /\ op' = "import"
    /\ Set(Finish([d EXCEPT !.auto_create_network = TRUE], "nil"))
    /\ UNCHANGED <<name, p, project_name, diff, calls, lastGet, lastBa, fw, items,
                   respToken, token>>

----------------------------------------------------------------------------
(* The host *)

\* The handler has returned: the host keeps the record, or drops it when its
\* identifier is empty, and forgets everything local to the handler.
Return ==
    /\ pc = "done"
    /\ d' = IF d.id = "" THEN BlankRecord ELSE d
    /\ op' = "none"
    /\ pc' = "idle"
    /\ err' = "nil"
    /\ inPoll' = FALSE
    /\ retries' = 0
    /\ name' = Empty
    /\ p' = NoProject
    /\ project_name' = ""
    /\ diff' = NoChange
    /\ calls' = <<>>
    /\ lastGet' = NoGet
    /\ lastBa' = NoBa
    /\ readErr' = "none"
    /\ fw' = {}
    /\ items' = <<>>
    /\ respToken' = NoToken
    /\ token' = NoToken

Next ==
    \/ InvokeCreate \/ CreateProject \/ CreateWait \/ EnableService
    \/ ListFirewalls \/ DeleteFirewall \/ WaitFirewall \/ DeleteNetwork
    \/ UpdateBillingInfo
    \/ InvokeRead \/ ReadGet \/ ReadBilling
    \/ InvokeUpdate \/ UpdateGet \/ UpdateName \/ UpdateParent \/ UpdateLabels
    \/ InvokeDelete \/ DeleteProject
    \/ ImportState
    \/ Return

Spec == Init /\ [][Next]_vars

----------------------------------------------------------------------------
(* One call of one handler *)

\* The records the host may hold for a project: the fields as Create and Read
\* leave them, folder_id as its StateFunc parseFolderId stores it.
StoredRecords ==
    {[id |-> i, project_id |-> i, name |-> nm, org_id |-> par.org_id,
      folder_id |-> parseFolderId(par.folder_id), number |-> FormatInt(n),
      billing_account |-> ba, labels |-> lb, auto_create_network |-> acn,
      skip_delete |-> skip] :
        i \in ProjectIds, nm \in Names, par \in ParentInputs,
        n \in ProjectNumbers, ba \in BillingInputs, lb \in LabelSets,
        acn \in BOOLEAN, skip \in BOOLEAN}

InitStored ==
    /\ d \in StoredRecords
    /\ op = "none"
    /\ pc = "idle"
    /\ err = "nil"
    /\ inPoll = FALSE
    /\ retries = 0
    /\ name = Empty
    /\ p = NoProject
    /\ project_name = ""
    /\ diff = NoChange
    /\ calls = <<>>
    /\ lastGet = NoGet
    /\ lastBa = NoBa
    /\ readErr = "none"
    /\ fw = {}
    /\ items = <<>>
    /\ respToken = NoToken
    /\ token = NoToken

NextCreate ==
    \/ InvokeCreate \/ CreateProject \/ CreateWait \/ EnableService
    \/ ListFirewalls \/ DeleteFirewall \/ WaitFirewall \/ DeleteNetwork
    \/ UpdateBillingInfo \/ ReadGet \/ ReadBilling

SpecCreate == Init /\ [][NextCreate]_vars

\* Create runs to its end: every remote call returns and the handler takes its
\* next step.
SpecCreateFair == SpecCreate /\ WF_vars(NextCreate)

NextRead == InvokeRead \/ ReadGet \/ ReadBilling

SpecRead == InitStored /\ [][NextRead]_vars

NextUpdate ==
    \/ InvokeUpdate \/ UpdateGet \/ UpdateName \/ UpdateParent \/ UpdateLabels
    \/ UpdateBillingInfo \/ ReadGet \/ ReadBilling

\* Update reads neither flag of the record: one value of each is enough, the
\* one that is not the schema's default
InitUpdate == InitStored /\ ~d.auto_create_network /\ d.skip_delete

SpecUpdate == InitUpdate /\ [][NextUpdate]_vars

NextDelete == InvokeDelete \/ DeleteProject

SpecDelete == InitStored /\ [][NextDelete]_vars

----------------------------------------------------------------------------
(* A record's life: handler after handler on one record *)

\* The part of the environment a life is followed under: no folders, and two
\* of the remote projects and one on its way to deletion.
LifeProjects ==
    {Project("n1", NoLabels, NoParent, "ACTIVE"),
     Project("n2", {<<"k", "v">>}, [type |-> "organization", id |-> <<"o1">>], "ACTIVE"),
     Project("n2", {<<"k", "v">>}, [type |-> "organization", id |-> <<"o1">>],
             "DELETE_REQUESTED")}

LifeEnv ==
    /\ d.folder_id = Empty
    /\ lastGet.code = "ok" => lastGet.project \in LifeProjects

NextLife ==
    \/ InvokeCreate /\ LifeEnv'
    \/ CreateProject /\ LifeEnv'
    \/ CreateWait /\ LifeEnv'
    \/ EnableService /\ LifeEnv'
    \/ ListFirewalls /\ LifeEnv'
    \/ DeleteFirewall /\ LifeEnv'
    \/ WaitFirewall /\ LifeEnv'
    \/ DeleteNetwork /\ LifeEnv'
    \/ UpdateBillingInfo /\ LifeEnv'
    \/ InvokeRead /\ LifeEnv'
    \/ ReadGet /\ LifeEnv'
    \/ ReadBilling /\ LifeEnv'
    \/ InvokeUpdate /\ LifeEnv'
    \/ UpdateGet /\ LifeEnv'
    \/ UpdateName /\ LifeEnv'
    \/ UpdateParent /\ LifeEnv'
    \/ UpdateLabels /\ LifeEnv'
    \/ InvokeDelete /\ LifeEnv'
    \/ DeleteProject /\ LifeEnv'
    \/ ImportState /\ LifeEnv'
    \/ Return /\ LifeEnv'

SpecLife == Init /\ [][NextLife]_vars

----------------------------------------------------------------------------
(* Properties *)

Failed(api) == \E i \in Idx(api) : ~calls[i].ok

Succeeded(api) == \E i \in Idx(api) : calls[i].ok

\* the place of an API in the order of Create's remote calls
ApiRank(api) ==
    CASE api = "projects.create" -> 1
      [] api = "operation.wait" -> 2
      [] api = "billing.update" -> 3
      [] api \in {"projects.get", "billing.get"} -> 4
      [] api = "services.enable" -> 5
      [] api \in {"firewalls.list", "firewalls.delete", "compute.wait"} -> 6
      [] api = "networks.delete" -> 7
      [] OTHER -> 0

\* C1: in Create the identifier is set only once Projects.Create succeeded and
\* is then the project id; a failed submission leaves it unset and is the last
\* call; a failed wait clears it, its error is returned, and no call follows.
C1_IdentifierOnlyAfterSubmit ==
    op = "create" =>
        /\ d.id \in {"", d.project_id}
        /\ d.id # "" => Succeeded("projects.create")
        /\ Failed("projects.create") =>
              /\ pc = "done" /\ err = "create"
              /\ d.id = ""
              /\ Len(calls) = 1
        /\ Failed("operation.wait") =>
              /\ pc = "done" /\ err = "wait"
              /\ d.id = ""
              /\ Len(calls) = 2
              /\ calls[1].api = "projects.create"

\* C1 witness: the wait on the creation operation failed after the identifier
\* had been set.
C1_Witness ==
    /\ op = "create" /\ pc = "done" /\ err = "wait"
    /\ Succeeded("projects.create") /\ Failed("operation.wait")
    /\ d.id = ""

\* C2 (as claimed): whenever Create returns success the identifier is the
\* requested project id and number, name, labels and billing account are those
\* the read after creation returned, whatever that read observed.
C2_SuccessMeansPopulated ==
    (op = "create" /\ pc = "done" /\ err = "nil") =>
        /\ d.id = calls[1].arg.projectId
        /\ d.number = FormatInt(lastGet.project.projectNumber)
        /\ d.name = lastGet.project.name
        /\ d.labels = lastGet.project.labels
        /\ d.billing_account = TrimPrefix(lastBa.billingAccountName, BillingPrefix)

\* C3: Create's remote calls come in the order create, wait, billing link (only
\* for a supplied billing account), read, enable compute, firewall listing and
\* deletions, network delete; nothing of the network is touched unless the
\* compute service was enabled, and nothing of it at all with
\* auto_create_network true.
C3_CreateCallOrder ==
    op = "create" =>
        /\ \A i, j \in 1..Len(calls) :
              i < j => ApiRank(calls[i].api) <= ApiRank(calls[j].api)
        /\ \A i \in 1..Len(calls) : ApiRank(calls[i].api) > 0
        /\ \A api \in {"projects.create", "operation.wait", "billing.update",
                       "services.enable", "networks.delete"} :
              Cardinality(Idx(api)) <= 1
        /\ \A i \in Idx("billing.update") :
              calls[i].arg.info.billingAccountName # Empty
        /\ pc = "b_update" => GetOk(d.billing_account)
        /\ (pc = "r_get" /\ Len(calls) = 2) => ~GetOk(d.billing_account)
        /\ \A i \in Idx("services.enable") :
              /\ ~d.auto_create_network
              /\ calls[1].ok /\ calls[2].ok
              /\ Cardinality({j \in Idx("projects.get") : j < i})
                    >= 1 + Cardinality(Idx("billing.update"))
        /\ \A i \in 1..Len(calls) :
              ApiRank(calls[i].api) >= 6 => Succeeded("services.enable")
        /\ \A i \in Idx("networks.delete") :
              /\ Succeeded("firewalls.list")
              /\ \A j \in 1..(i - 1) : calls[j].ok \/ calls[j].api = "projects.get"
        /\ d.auto_create_network =>
              \A i \in 1..Len(calls) : ApiRank(calls[i].api) < 5
        /\ (pc = "done" /\ err = "nil" /\ ~d.auto_create_network) =>
              \A api \in {"projects.create", "operation.wait", "projects.get",
                          "services.enable", "firewalls.list", "networks.delete"} :
                 Succeeded(api) \/ (api = "projects.get" /\ Idx(api) # {})

\* C3 witness: a Create with a billing account and without the default
\* network ran to the end, deleting a firewall rule on the way.
C3_Witness ==
    /\ op = "create" /\ pc = "done" /\ err = "nil"
    /\ ~d.auto_create_network
    /\ Succeeded("billing.update")
    /\ Succeeded("firewalls.delete")
    /\ Succeeded("networks.delete")

\* C4 (as claimed): after a successful Read of an ACTIVE project the record's
\* billing account is the remote linkage without its prefix, and empty when
\* the project has no linkage, whatever the record held before.
C4_BillingFollowsRemote ==
    (op = "read" /\ pc = "done" /\ err = "nil" /\ lastGet.code = "ok"
       /\ lastGet.project.lifecycleState = "ACTIVE") =>
        d.billing_account = TrimPrefix(lastBa.billingAccountName, BillingPrefix)

\* C5: when Projects.Get returns a project that is not ACTIVE, Read only clears
\* the identifier, returns nil, and makes no billing-info call.
C5_NotActiveClearsRecord ==
    [][(pc = "r_get" /\ lastGet'.code = "ok"
          /\ lastGet'.project.lifecycleState # "ACTIVE") =>
        /\ d' = [d EXCEPT !.id = ""]
        /\ readErr' = "nil"
        /\ (op = "read" => pc' = "done" /\ err' = "nil")
        /\ pc' # "r_billing"
        /\ Len(calls') = Len(calls) + 1
        /\ calls'[Len(calls')].api = "projects.get"]_vars

\* C5 witness: a Read that found the project not ACTIVE has returned.
C5_Witness ==
    /\ op = "read" /\ pc = "done" /\ err = "nil"
    /\ lastGet.code = "ok" /\ lastGet.project.lifecycleState # "ACTIVE"
    /\ lastGet.project.name # d.name
    /\ d.id = ""
    /\ Idx("billing.get") = {}

\* C10: Delete clears the identifier exactly when skip_delete is set or
\* Projects.Delete succeeded; with skip_delete no call is made; without it one
\* delete is sent for the identifier, and its failure is returned with the
\* identifier unchanged.
C10_DeleteClearsIdentifier ==
    (op = "delete" /\ pc = "done") =>
        /\ d.id = "" <=> (d.skip_delete \/ Succeeded("projects.delete"))
        /\ d.skip_delete => (calls = <<>> /\ d.id = "" /\ err = "nil")
        /\ ~d.skip_delete =>
              /\ Len(calls) = 1
              /\ calls[1].api = "projects.delete"
              /\ calls[1].arg = d.project_id
              /\ calls[1].ok => err = "nil"
              /\ ~calls[1].ok => (err = "delete" /\ d.id = d.project_id)

\* C10 witness: a Delete without skip_delete whose remote call failed.
C10_Witness ==
    /\ op = "delete" /\ pc = "done" /\ err = "delete"
    /\ ~d.skip_delete /\ Failed("projects.delete")
    /\ d.id # ""

\* the reads of the billing poll of an Update: the Projects.Get calls after
\* the billing update
PollReads ==
    Cardinality({j \in Idx("projects.get") :
                    \E u \in Idx("billing.update") : j > u})

InRead == pc \in {"r_get", "r_billing"}

\* C6 (as claimed): after a successful billing submission the record is re-read
\* at least once and at most 3 times, no read follows one that left the billing
\* field equal to the desired value, and a timeout error is returned exactly
\* when the field still differs after the third read, the field keeping the
\* mismatched value.
C6_PollEndsInTimeoutError ==
    (op = "update" /\ Succeeded("billing.update")) =>
        /\ PollReads <= MaxRetries
        /\ ~InRead => PollReads >= 1
        /\ (pc = "r_get" /\ PollReads >= 1) => d.billing_account # name
        /\ (~InRead /\ readErr = "nil" /\ d.billing_account # name) =>
              (PollReads = MaxRetries /\ pc = "done" /\ err = "timeout")
        /\ err = "timeout" =>
              /\ pc = "done" /\ PollReads = MaxRetries
              /\ readErr = "nil" /\ d.billing_account # name

\* C7 (as claimed): the update submitted for changed labels carries the new
\* labels whatever else changed in the same Update; when only labels changed
\* it is the only update, with the name and parent of the fetched project.
C7_LabelsUpdateCarriesNewLabels ==
    op = "update" =>
        /\ \A i \in Idx("projects.update") :
              calls[i].arg.field = "labels" =>
                 calls[i].arg.object.labels = diff.labels
        /\ (DOMAIN diff = {"labels"} /\ pc = "done" /\ err = "nil") =>
              /\ Cardinality(Idx("projects.update")) = 1
              /\ \A i \in Idx("projects.update") :
                    /\ calls[i].arg.object.name = lastGet.project.name
                    /\ calls[i].arg.object.parent = lastGet.project.parent

\* errors an Update can return
UpdateErrors ==
    {"update_get", "update_project", "billing_update", "read_get",
     "read_billing", "read_parse", "timeout"}

\* the place of a call of Update in the order name, parent, billing, labels
StepRank(i) ==
    CASE calls[i].api = "projects.update" /\ calls[i].arg.field = "name" -> 1
      [] calls[i].api = "projects.update" /\ calls[i].arg.field = "parent" -> 2
      [] calls[i].api = "billing.update" -> 3
      [] calls[i].api \in {"projects.get", "billing.get"} /\ i > 1 -> 3
      [] calls[i].api = "projects.update" /\ calls[i].arg.field = "labels" -> 4
      [] OTHER -> 0

\* C8 (as claimed): Update applies the changed fields in the order name,
\* parent, billing, labels, one full-object update per changed group and the
\* billing change through the billing linkage; the first failing step returns
\* an error and no remote call follows it.
C8_StepsInOrderAndAbort ==
    op = "update" =>
        /\ \A i, j \in 1..Len(calls) : i < j => StepRank(i) <= StepRank(j)
        /\ \A i \in Idx("projects.update") :
              /\ HasChange(calls[i].arg.field)
              /\ \A j \in Idx("projects.update") :
                    calls[j].arg.field = calls[i].arg.field => j = i
        /\ Cardinality(Idx("billing.update")) <= 1
        /\ Idx("billing.update") # {} => HasChange("billing_account")
        /\ \A i \in 1..Len(calls) :
              (~calls[i].ok /\ (calls[i].api # "projects.get" \/ i = 1)) =>
                 /\ i = Len(calls)
                 /\ pc = "done" /\ err \in UpdateErrors
        /\ readErr \notin {"none", "nil"} => (pc = "done" /\ err = readErr)
        /\ pc = "done" => err \in UpdateErrors \cup {"nil"}
        /\ (pc = "done" /\ err = "nil") =>
              /\ \A f \in DOMAIN diff \ {"billing_account"} :
                    \E i \in Idx("projects.update") :
                       calls[i].arg.field = f /\ calls[i].ok
              /\ HasChange("billing_account") => Succeeded("billing.update")

\* C9: Update first gets the remote project and makes no other call when that
\* fails; every update it sends is the object in hand (the fetched one, or the
\* one the previous update returned) with only the field of its step replaced,
\* and steps exist only for changed fields, so an unchanged field keeps the
\* fetched value.
C9_UpdatesBuiltOnFetchedObject ==
    [][op = "update" =>
        /\ calls'[1].api = "projects.get"
        /\ ~calls'[1].ok => (Len(calls') = 1 /\ pc' = "done" /\ err' = "update_get")
        /\ (pc = "u_get" /\ lastGet'.code = "ok") => p' = lastGet'.project
        /\ (pc # "u_get" /\ Len(calls') > Len(calls)) =>
              LET e == calls'[Len(calls')]
              IN  IF e.api = "projects.update"
                  THEN /\ HasChange(e.arg.field)
                       /\ \A f \in DOMAIN p \ {e.arg.field} : e.arg.object[f] = p[f]
                       /\ \A f \in (DOMAIN p \ {e.arg.field}) \ DOMAIN diff :
                             e.arg.object[f] = p'[f]
                       /\ e.ok => p' = e.arg.object
                       /\ ~e.ok => p' = p
                  ELSE p' = p]_vars

\* C9 witness: an Update that did not change the labels has sent an update
\* whose labels are not the record's.
C9_Witness ==
    /\ op = "update" /\ pc = "done" /\ err = "nil"
    /\ ~HasChange("labels") /\ ~HasChange("billing_account")
    /\ \E i \in Idx("projects.update") :
          /\ calls[i].ok
          /\ calls[i].arg.object.labels # d.labels
          /\ calls[i].arg.object.labels = lastGet.project.labels

\* C11: when Projects.UpdateBillingInfo fails, the record's billing field is
\* reset to empty, the error is returned and the failed call is the last one
\* (no polling read); inside Create the identifier stays the project id and
\* neither a delete nor a read, enable-service or network call is made.
C11_BillingSubmitFailure ==
    Failed("billing.update") =>
        /\ pc = "done" /\ err = "billing_update"
        /\ d.billing_account = Empty
        /\ calls[Len(calls)].api = "billing.update"
        /\ \A i \in Idx("projects.get") :
              \A u \in Idx("billing.update") : i < u
        /\ op = "create" =>
              /\ d.id = d.project_id /\ d.id # ""
              /\ Len(calls) = 3
              /\ calls[1].api = "projects.create" /\ calls[1].ok
              /\ calls[2].api = "operation.wait" /\ calls[2].ok
              /\ \A i \in 1..Len(calls) : ApiRank(calls[i].api) \in 1..3

\* C11 witness: a Create whose billing submission failed has returned.
C11_Witness ==
    /\ op = "create" /\ pc = "done" /\ err = "billing_update"
    /\ Failed("billing.update")
    /\ calls[1].arg.projectId = d.id
    /\ ~d.auto_create_network

\* the last Read observed the remote project without a billing linkage
ObservedUnlinked == lastBa.code = "ok" /\ lastBa.billingAccountName = Empty

\* C12 (as claimed): the billing payload for an empty desired account carries
\* no billingAccountName at all, and for a non-empty one "billingAccounts/"
\* followed by it; and once a read of the poll observes the remote project
\* unlinked while the desired account is empty, the poll stops and the billing
\* update returns success.
C12_UnlinkPayloadAndConvergence ==
    op = "update" =>
        /\ \A i \in Idx("billing.update") :
              LET info == calls[i].arg.info
              IN  /\ name = Empty =>
                        /\ info.billingAccountName = Empty
                        /\ "BillingAccountName" \notin info.forceSendFields
                  /\ name # Empty => info.billingAccountName = <<BillingPrefix>> \o name
        /\ (Succeeded("billing.update") /\ name = Empty /\ ObservedUnlinked
              /\ pc # "r_billing") =>
              /\ pc # "r_get"
              /\ readErr = "nil"
              /\ d.billing_account = name
              /\ err \notin {"timeout", "panic"}
              /\ PollReads <= MaxRetries

\* C13: when GetBillingInfo returns a non-empty name for an ACTIVE project,
\* Read returns a parse error and leaves the record as it is if the name does
\* not begin with "billingAccounts/", and otherwise sets the billing field to
\* the name less exactly one leading "billingAccounts/".
C13_BillingNameParsed ==
    [][(pc = "r_billing" /\ lastBa'.code = "ok"
          /\ lastBa'.billingAccountName # Empty) =>
        IF Head(lastBa'.billingAccountName) = BillingPrefix
        THEN /\ <<BillingPrefix>> \o d'.billing_account = lastBa'.billingAccountName
             /\ d' = [d EXCEPT !.billing_account = d'.billing_account]
             /\ readErr' = "nil"
             /\ op = "read" => (pc' = "done" /\ err' = "nil")
        ELSE /\ d' = d
             /\ readErr' = "read_parse"
             /\ op = "read" => (pc' = "done" /\ err' = "read_parse")]_vars

\* C13 witness: a Read has returned an account name that still begins with the
\* prefix, the remote name carrying it twice.
C13_Witness ==
    /\ op = "read" /\ pc = "done" /\ err = "nil"
    /\ lastBa.code = "ok"
    /\ lastBa.billingAccountName = <<BillingPrefix, BillingPrefix, "A">>
    /\ d.billing_account = <<BillingPrefix, "A">>

\* the parent the claimed resolution assigns: the organization when org_id is
\* set, the folder only when org_id is unset, and the parent as it was when
\* neither is set
ClaimedParent(dd, parent) ==
    IF GetOk(dd.org_id) THEN [type |-> "organization", id |-> dd.org_id]
    ELSE IF GetOk(dd.folder_id)
    THEN [type |-> "folder", id |-> parseFolderId(dd.folder_id)]
    ELSE parent

\* C14 (as claimed): the parent sent by the parent step of Update is the
\* organization whenever org_id is set, also when folder_id is set with it,
\* the folder only when org_id is unset, and the fetched parent when neither
\* is set.
C14_ParentPrefersOrganization ==
    [][(pc = "u_parent" /\ Len(calls') > Len(calls)) =>
        calls'[Len(calls')].arg.object.parent = ClaimedParent(d, p.parent)]_vars

\* C15: over a record's whole life the identifier is empty or the project id;
\* it becomes non-empty only in the step of Create in which Projects.Create
\* succeeded, from empty to the requested project id, and every other change
\* of it is a clearing.
C15_IdentifierSetOnceByCreate ==
    [][/\ d'.id \in {"", d'.project_id}
       /\ d'.id # d.id =>
             \/ d'.id = ""
             \/ /\ d.id = ""
                /\ op = "create" /\ pc = "c_create"
                /\ d'.id = d.project_id
                /\ Len(calls') = 1 /\ calls'[1].api = "projects.create"
                /\ calls'[1].ok]_vars

\* C15 witness: a record that Create had given its identifier is cleared by a
\* later Delete.
C15_Witness ==
    /\ op = "delete" /\ pc = "done" /\ err = "nil"
    /\ Succeeded("projects.delete")
    /\ calls[1].arg = d.project_id
    /\ d.id = "" /\ d.project_id # ""

\* C16: Import sets auto_create_network to true whatever the record held and
\* changes nothing else of it, and no step of a Read or an Update (nor of a
\* Read run inside another handler) changes auto_create_network or skip_delete.
C16_FlagsOnlySetByImport ==
    [][/\ (op # "import" /\ op' = "import") =>
             /\ d'.auto_create_network
             /\ d' = [d EXCEPT !.auto_create_network = TRUE]
             /\ pc' = "done" /\ err' = "nil" /\ calls' = calls
       /\ ((op \in {"read", "update"} \/ pc \in {"r_get", "r_billing"}) /\ op' = op) =>
             /\ d'.auto_create_network = d.auto_create_network
             /\ d'.skip_delete = d.skip_delete
       /\ (op = "none" /\ op' \in {"read", "update"}) =>
             /\ d'.auto_create_network = d.auto_create_network
             /\ d'.skip_delete = d.skip_delete]_vars

\* C16 witness: an Import has returned for a record whose project was created
\* with skip_delete set, and the flag is true.
C16_Witness ==
    /\ op = "import" /\ pc = "done" /\ err = "nil"
    /\ d.auto_create_network /\ d.skip_delete
    /\ d.id # "" /\ calls = <<>>

\* errors of forceDeleteComputeNetwork, by the call that failed
NetworkError(api) ==
    CASE api = "firewalls.list" -> "fw_list"
      [] api = "firewalls.delete" -> "fw_delete"
      [] api = "compute.wait" -> "fw_wait"
      [] OTHER -> "net_delete"

\* C17: in forceDeleteComputeNetwork every firewall delete is followed by the
\* wait on that very rule before anything else is called; the network delete
\* is issued only once no rule is attached to the network any more, all calls
\* before it having succeeded; and a failed listing, delete, wait or network
\* delete is the last call and its error is returned.
C17_SequentialDeletesThenNetwork ==
    op = "create" =>
        /\ \A i \in Idx("firewalls.delete") :
              /\ (calls[i].ok /\ i < Len(calls)) =>
                    /\ calls[i + 1].api = "compute.wait"
                    /\ calls[i + 1].arg = calls[i].arg
              /\ (calls[i].ok /\ i = Len(calls)) => pc = "f_wait"
        /\ \A i \in Idx("compute.wait") :
              /\ calls[i - 1].api = "firewalls.delete"
              /\ calls[i - 1].ok
              /\ calls[i].ok => calls[i].arg \notin fw
        /\ \A i \in Idx("networks.delete") :
              /\ fw = {}
              /\ i = Len(calls)
              /\ \A j \in 1..(i - 1) :
                    ApiRank(calls[j].api) >= 6 => calls[j].ok
        /\ \A i \in 1..Len(calls) :
              (ApiRank(calls[i].api) >= 6 /\ ~calls[i].ok) =>
                 /\ i = Len(calls)
                 /\ pc = "done"
                 /\ err = NetworkError(calls[i].api)

\* C17 witness: the network was deleted after MaxRules rules had been deleted
\* over several listings.
C17_Witness ==
    /\ op = "create" /\ pc = "done" /\ err = "nil"
    /\ Succeeded("networks.delete")
    /\ Cardinality(Idx("firewalls.list")) >= 2
    /\ Cardinality(Idx("compute.wait")) >= MaxRules
    /\ fw = {}

\* C18 (as claimed): every Firewalls.List request carries the page token the
\* loop holds (none for the first request, the previous response's
\* NextPageToken afterwards); another listing follows exactly when the
\* response carried a token, and the network delete when it carried none.
C18_ListingFollowsTokens ==
    [][/\ pc = "f_list" =>
             /\ calls'[Len(calls')].api = "firewalls.list"
             /\ calls'[Len(calls')].arg = token
       /\ (pc \in {"f_list", "f_wait"} /\ pc' = "f_list") =>
             (respToken' # NoToken /\ token' = respToken')
       /\ (pc \in {"f_list", "f_wait"} /\ pc' = "f_delnet") =>
             (respToken' = NoToken /\ token' = NoToken)]_vars

\* C19 (as claimed): when the billing update of an Update has returned
\* success for a non-empty desired account, the last read of its poll saw the
\* project ACTIVE and linked to "billingAccounts/" followed by that account.
C19_SuccessMeansLinked ==
    (op = "update" /\ Succeeded("billing.update") /\ name # Empty
       /\ ~InRead /\ readErr = "nil" /\ err \notin {"timeout", "panic"}) =>
        /\ lastGet.code = "ok"
        /\ lastGet.project.lifecycleState = "ACTIVE"
        /\ lastBa.code = "ok"
        /\ lastBa.billingAccountName = <<BillingPrefix>> \o name

\* C20: once forceDeleteComputeNetwork has been entered, with every remote
\* call returning, the listing loop ends: the helper gets a response without a
\* page token and reaches the network delete, or returns an error; and the
\* helper itself returns.
C20_NetworkDeletionTerminates ==
    /\ (pc = "f_list") ~>
          \/ pc = "f_delnet" /\ respToken = NoToken
          \/ pc = "done" /\ err \in {"fw_list", "fw_delete", "fw_wait"}
    /\ (pc \in {"f_list", "f_del", "f_wait", "f_delnet"}) ~> (pc = "done")

\* C20 witness: the loop has reached the network delete after more than one
\* listing of a network with MaxRules rules.
C20_Witness ==
    /\ op = "create" /\ pc = "f_delnet"
    /\ respToken = NoToken /\ fw = {}
    /\ Cardinality(Idx("firewalls.list")) >= 2
    /\ Cardinality(Idx("firewalls.delete")) >= MaxRules

====
